---- MODULE Spec2Model ----
(***************************************************************************)
(* Design Awareness data format: the period normaliser, the realtime       *)
(* timing validator, the entity validator and the envelope codec.          *)
(*                                                                         *)
(* A Date is the record [day, ms]: the epoch time day * MsPerDay + ms with *)
(* 0 <= ms < MsPerDay, so `day` is the UTC calendar day counted from       *)
(* 1970-01-01 and `ms` the milliseconds since 00:00:00.000Z of that day.   *)
(***************************************************************************)
EXTENDS Integers, Sequences, FiniteSets, TLC

VARIABLES
  mode,               \* which component this behaviour exercises
  \* Period Normalizer
  period,             \* AsyncEntry.period, the value being normalized
  reportingPeriod,    \* AsyncProject.reportingPeriod
  periodAlignment,    \* AsyncProject.periodAlignment
  cur,                \* the date the normalizer is working on
  npc,                \* "start" | "loop" | "done"
  decrements,         \* one-day decrements taken by the current run
  \* Realtime Timing Validator
  pairs,              \* a RealtimeActivityRecord: a sequence of <<on, off>>
  sessionDuration,    \* RealtimeSession.duration
  sessionOngoing,     \* whether the owning session is still being tracked
  violations,         \* the list validateRecord returned
  vpc,                \* "input" | "checked"
  \* Document Pipeline
  entity,             \* the entity a caller holds and passes to encode
  etype,              \* its type
  meta,               \* the meta the caller supplied to the last encode
  wire,               \* the envelope on the wire
  result,             \* what decode returned
  now,                \* the reading of the time source
  encodedAt,          \* the reading the last encode took
  ticks,              \* advances of the time source so far
  dpc                 \* "entity" | "wire" | "decoded" | "exported"

nvars == <<period, reportingPeriod, periodAlignment, cur, npc, decrements>>
tvars == <<pairs, sessionDuration, sessionOngoing, violations, vpc>>
dvars == <<entity, etype, meta, wire, result, now, encodedAt, ticks, dpc>>
vars == <<mode, nvars, tvars, dvars>>

-----------------------------------------------------------------------------
(* Bounds *)

\* Days on each side of the documented example days (and of the epoch).
DayWindow == 7

\* Longest generated RealtimeActivityRecord.
MaxPairs == 2

\* Largest generated session-relative time.
MaxTime == 3

\* Most activities in a sample design model.
MaxActivities == 2

\* Most sessions, or entries, in a sample project.
MaxSessions == 2

\* Most advances of the time source between an encode and a decode.
MaxTicks == 1

\* Most decrements the model follows a week loop for.
MaxDecrements == 8

-----------------------------------------------------------------------------
(* Dates *)

MsPerDay == 24 * 60 * 60 * 1000

\* Date.UTC(y, m, d): the day number of a proleptic Gregorian civil date.
DaysFromCivil(y, m, d) ==
  LET yy  == IF m <= 2 THEN y - 1 ELSE y
      era == yy \div 400
      yoe == yy - era * 400
      mp  == (m + 9) % 12
      doy == (153 * mp + 2) \div 5 + d - 1
      doe == yoe * 365 + yoe \div 4 - yoe \div 100 + doy
  IN  era * 146097 + doe - 719468

\* getUTCFullYear/Month/Date: the civil date of a day number.
CivilFromDays(z) ==
  LET zz  == z + 719468
      era == zz \div 146097
      doe == zz - era * 146097
      yoe == (doe - doe \div 1460 + doe \div 36524 - doe \div 146096) \div 365
      doy == doe - (365 * yoe + yoe \div 4 - yoe \div 100)
      mp  == (5 * doy + 2) \div 153
      d   == doy - (153 * mp + 2) \div 5 + 1
      m   == IF mp < 10 THEN mp + 3 ELSE mp - 9
      y   == yoe + era * 400
  IN  [y |-> IF m <= 2 THEN y + 1 ELSE y, m |-> m, d |-> d]

\* new Date("YYYY-MM-DDTHH:mm:ss.sssZ")
DateOf(y, m, d, h, mi, s, ms) ==
  [day |-> DaysFromCivil(y, m, d),
   ms  |-> ((h * 60 + mi) * 60 + s) * 1000 + ms]

\* Date.prototype.getUTCDay: 0 is Sunday; 1970-01-01 was a Thursday.
\* A mutation of getUTCDay: weekdays numbered 1 (Monday) to 7 (Sunday).
getISODay(date) == ((date.day + 3) % 7) + 1

getUTCDay(date) == (date.day + 4) % 7

\* Truncation to the start of the UTC day (setUTCHours(0, 0, 0, 0)).
startOfUTCDay(date) == [day |-> date.day, ms |-> 0]

\* A mutation of decrementDay: steps to the next day instead.
incrementDay(date) == [day |-> date.day + 1, ms |-> date.ms]

\* One decrement of the date (setUTCDate(getUTCDate() - 1)).
decrementDay(date) == [day |-> date.day - 1, ms |-> date.ms]

Weekday == 0 .. 6

ReportingPeriods == {"day", "week"}

-----------------------------------------------------------------------------
(* Period Normalizer *)

RECURSIVE weekLoopDoWhile(_, _)
\* A mutation of weekLoop: decrements once before it tests the weekday.
weekLoopDoWhile(date, align) ==
  LET d == decrementDay(date)
  IN  IF getUTCDay(d) = align THEN d ELSE weekLoopDoWhile(d, align)

RECURSIVE weekLoop(_, _)
\* "if the weekday does not match periodAlignment, decrement the date until
\* it does"
weekLoop(date, align) ==
  IF getUTCDay(date) = align THEN date ELSE weekLoop(decrementDay(date), align)

normalize(p, rp, align) ==
  IF rp = "week" THEN weekLoop(startOfUTCDay(p), align) ELSE startOfUTCDay(p)

\* The documented example dates.
June20 == DateOf(2021, 6, 20, 0, 0, 0, 0)
June20Afternoon == DateOf(2021, 6, 20, 15, 0, 0, 0)
June21 == DateOf(2021, 6, 21, 0, 0, 0, 0)
June23 == DateOf(2021, 6, 23, 1, 33, 40, 908)

SampleDays ==
  (June20.day - DayWindow .. June20.day + DayWindow) \cup (0 - DayWindow .. DayWindow)

SampleMs == {0, 1, June23.ms, June20Afternoon.ms, MsPerDay - 1}

Periods == [day : SampleDays, ms : SampleMs]

PeriodInit ==
  /\ period \in Periods
  /\ reportingPeriod \in ReportingPeriods
  /\ periodAlignment \in Weekday
  /\ cur = period
  /\ npc = "start"
  /\ decrements = 0

PeriodIdle ==
  /\ period = June20
  /\ reportingPeriod = "day"
  /\ periodAlignment = 0
  /\ cur = June20
  /\ npc = "idle"
  /\ decrements = 0

\* Truncate to the start of the UTC day; a "day" period is then normalized.
Truncate ==
  /\ mode = "period"
  /\ npc = "start"
  /\ cur' = startOfUTCDay(cur)
  /\ npc' = IF reportingPeriod = "week" THEN "loop" ELSE "done"
  /\ UNCHANGED <<mode, period, reportingPeriod, periodAlignment, decrements>>
  /\ UNCHANGED <<tvars, dvars>>

\* One iteration of the week loop whose test fails.
Decrement ==
  /\ mode = "period"
  /\ npc = "loop"
  /\ getUTCDay(cur) # periodAlignment
  /\ decrements < MaxDecrements
  /\ cur' = decrementDay(cur)
  /\ decrements' = decrements + 1
  /\ UNCHANGED <<mode, period, reportingPeriod, periodAlignment, npc>>
  /\ UNCHANGED <<tvars, dvars>>

\* The week loop's test succeeds.
Aligned ==
  /\ mode = "period"
  /\ npc = "loop"
  /\ getUTCDay(cur) = periodAlignment
  /\ npc' = "done"
  /\ UNCHANGED <<mode, period, reportingPeriod, periodAlignment, cur, decrements>>
  /\ UNCHANGED <<tvars, dvars>>

\* The normalized value is stored as the entry's period and normalized again.
Renormalize ==
  /\ mode = "period"
  /\ npc = "done"
  /\ period' = cur
  /\ npc' = "start"
  /\ decrements' = 0
  /\ UNCHANGED <<mode, reportingPeriod, periodAlignment, cur>>
  /\ UNCHANGED <<tvars, dvars>>

NextPeriod == Truncate \/ Decrement \/ Aligned \/ Renormalize

-----------------------------------------------------------------------------
(* Period Normalizer: claims *)

\* C1: normalization is idempotent: normalizing the normalized value of any
\* period, under the same reportingPeriod and periodAlignment, returns it
\* unchanged; and the value a run ends with is a fixed point of normalize.
C1_Idempotent ==
  /\ normalize(normalize(period, reportingPeriod, periodAlignment),
               reportingPeriod, periodAlignment)
       = normalize(period, reportingPeriod, periodAlignment)
  /\ npc = "done" =>
       /\ cur = normalize(period, reportingPeriod, periodAlignment)
       /\ normalize(cur, reportingPeriod, periodAlignment) = cur

\* An already-normalized week period (Monday, June 21, 2021 under alignment 1)
\* has been normalized: no decrement was taken and the value is unchanged.
C1_Witness ==
  /\ npc = "done"
  /\ reportingPeriod = "week"
  /\ periodAlignment = 1
  /\ period = June21
  /\ cur = June21
  /\ decrements = 0

\* C2: normalize never rounds forward: the result is the start of a UTC day
\* not later than the period; for "day" it is the period's own day, for
\* "week" the most recent day, 0 to 6 days back, whose weekday is the
\* alignment.  2021-06-23T01:33:40.908Z with alignment 1 gives 2021-06-21,
\* and 2021-06-20T15:00:00.000Z as a day period gives 2021-06-20.
C2_NeverForward ==
  /\ npc = "done" =>
       /\ cur.ms = 0
       /\ cur.day <= period.day
       /\ reportingPeriod = "day" => cur.day = period.day
       /\ reportingPeriod = "week" =>
            /\ period.day - cur.day \in 0 .. 6
            /\ decrements = period.day - cur.day
            /\ getUTCDay(cur) = periodAlignment
       /\ (period = June23 /\ reportingPeriod = "week" /\ periodAlignment = 1)
            => cur = June21
       /\ (period = June20Afternoon /\ reportingPeriod = "day") => cur = June20
  /\ normalize(June23, "week", 1) = [day |-> 18799, ms |-> 0]
  /\ normalize(June20Afternoon, "day", 0) = [day |-> 18798, ms |-> 0]

\* The documented example: June 23, 2021 (a Wednesday) folded back two days
\* to Monday, June 21.
C2_Witness ==
  /\ npc = "done"
  /\ period = June23
  /\ reportingPeriod = "week"
  /\ periodAlignment = 1
  /\ cur = June21
  /\ decrements = 2

-----------------------------------------------------------------------------
(* Realtime Timing Validator *)

Range(seq) == {seq[i] : i \in DOMAIN seq}

onTime(pair) == pair[1]

offTime(pair) == pair[2]

\* "An activity off time of -1 indicates that the activity has not been
\* turned off."
notTurnedOff(pair) == offTime(pair) = -1

\* A mutation of openEndedAllowed: the session's state is not consulted.
openEndedAlways(ongoing) == TRUE

\* "Such a value should never be present once a session is no longer ongoing"
openEndedAllowed(ongoing) == ongoing

\* A mutation of offAfterOn: a pair of zero length passes.
offNotBeforeOn(pair) == offTime(pair) >= onTime(pair)

\* "the off time must be greater than the on time"
offAfterOn(pair) == offTime(pair) > onTime(pair)

\* "No off time should be greater than the session's duration."
offWithinDuration(pair, duration) == offTime(pair) <= duration

\* A mutation of pairsOrdered: touching pairs pass.
pairsTouchOrOrdered(a, b) == offTime(a) <= onTime(b)

\* "each pair's off time is less than the on time of the next pair"
pairsOrdered(a, b) == offTime(a) < onTime(b)

Violation(i, kind) == [index |-> i, kind |-> kind]

\* The pair at position i (from 1) breaks a per-pair rule.
pairOutOfRange(ps, i, duration, ongoing) ==
  IF notTurnedOff(ps[i])
  THEN ~(i = Len(ps) /\ openEndedAllowed(ongoing))
  ELSE ~(/\ offAfterOn(ps[i])
         /\ offWithinDuration(ps[i], duration)
         /\ onTime(ps[i]) >= 0)

\* The pair at position i (from 1) does not start after its predecessor ended.
pairOutOfOrder(ps, i) == i > 1 /\ ~pairsOrdered(ps[i - 1], ps[i])

\* What the single pass appends for the pair at position i; indices in the
\* returned list count from 0.
pairViolations(ps, i, duration, ongoing) ==
  (IF pairOutOfRange(ps, i, duration, ongoing)
   THEN <<Violation(i - 1, "RangeError")>> ELSE <<>>)
  \o (IF pairOutOfOrder(ps, i)
      THEN <<Violation(i - 1, "OrderingError")>> ELSE <<>>)

RECURSIVE validateFailFast(_, _, _, _)
\* A mutation of validateFrom: the pass stops at the first offending pair.
validateFailFast(ps, i, duration, ongoing) ==
  IF i > Len(ps) THEN <<>>
  ELSE IF pairViolations(ps, i, duration, ongoing) # <<>>
       THEN pairViolations(ps, i, duration, ongoing)
       ELSE validateFailFast(ps, i + 1, duration, ongoing)

RECURSIVE validateFrom(_, _, _, _)
validateFrom(ps, i, duration, ongoing) ==
  IF i > Len(ps) THEN <<>>
  ELSE pairViolations(ps, i, duration, ongoing)
       \o validateFrom(ps, i + 1, duration, ongoing)

validateRecord(ps, duration, ongoing) == validateFrom(ps, 1, duration, ongoing)

Times == -1 .. MaxTime

\* On times stop one short of the largest off time: a pair that starts at
\* the largest time has no later off time to distinguish it.
OnTimes == -1 .. MaxTime - 1

TimingPairs == OnTimes \X Times

RECURSIVE RecordsOfLen(_)
RecordsOfLen(n) ==
  IF n = 0 THEN {<<>>}
  ELSE {Append(r, p) : r \in RecordsOfLen(n - 1), p \in TimingPairs}

GeneratedRecords == UNION {RecordsOfLen(n) : n \in 0 .. MaxPairs}

\* The touching pairs [[0,100],[100,200]].
TouchingPairs == <<<<0, 100>>, <<100, 200>>>>

TimingInit ==
  /\ \/ /\ pairs \in GeneratedRecords
        /\ sessionDuration \in {MaxTime - 1, MaxTime}
     \/ /\ pairs = TouchingPairs
        /\ sessionDuration = 200
  /\ sessionOngoing \in BOOLEAN
  /\ violations = <<>>
  /\ vpc = "input"

TimingIdle ==
  /\ pairs = <<>>
  /\ sessionDuration = 0
  /\ sessionOngoing = FALSE
  /\ violations = <<>>
  /\ vpc = "idle"

ValidateRecord ==
  /\ mode = "timing"
  /\ vpc = "input"
  /\ violations' = validateRecord(pairs, sessionDuration, sessionOngoing)
  /\ vpc' = "checked"
  /\ UNCHANGED <<mode, pairs, sessionDuration, sessionOngoing>>
  /\ UNCHANGED <<nvars, dvars>>

NextTiming == ValidateRecord

-----------------------------------------------------------------------------
(* Realtime Timing Validator: claims *)

accepted == vpc = "checked" /\ violations = <<>>

reported(i, kind) == Violation(i, kind) \in Range(violations)

\* C3: in every record validateRecord accepts, each pair's off time is
\* strictly less than the next pair's on time; consecutive pairs (a, b) with
\* b.onTime <= a.offTime (touching included) are reported with an
\* OrderingError at the index of b, as [[0,100],[100,200]] is at index 1.
C3_Ordering ==
  vpc = "checked" =>
    /\ violations = <<>> =>
         \A i \in 1 .. Len(pairs) - 1 : pairs[i][2] < pairs[i + 1][1]
    /\ \A i \in 2 .. Len(pairs) :
         pairs[i][1] <= pairs[i - 1][2] => reported(i - 1, "OrderingError")
    /\ pairs = TouchingPairs => reported(1, "OrderingError")

\* The touching pairs have been validated and index 1 carries the error.
C3_Witness ==
  /\ vpc = "checked"
  /\ pairs = TouchingPairs
  /\ sessionDuration = 200
  /\ violations = <<Violation(1, "OrderingError")>>

\* A record of two separated pairs has been accepted.
C3_WitnessAccepted ==
  /\ accepted
  /\ pairs = <<<<0, 1>>, <<2, 3>>>>

C5_PairRange ==
  vpc = "checked" =>
    \A i \in 1 .. Len(pairs) :
      LET permitted == pairs[i][2] = -1 /\ i = Len(pairs) /\ sessionOngoing
          inRange   == /\ 0 <= pairs[i][1]
                       /\ pairs[i][1] < pairs[i][2]
                       /\ pairs[i][2] <= sessionDuration
      IN  ~permitted =>
            /\ violations = <<>> => inRange
            /\ ~inRange => \E v \in Range(violations) : v.index = i - 1

\* A closed pair that ends exactly at the session's duration is accepted.
C5_Witness ==
  /\ accepted
  /\ ~sessionOngoing
  /\ pairs = <<<<0, 1>>, <<2, 3>>>>
  /\ sessionDuration = 3

\* A pair running past the session's duration has been reported.
C5_WitnessReported ==
  /\ vpc = "checked"
  /\ pairs = <<<<0, 3>>>>
  /\ sessionDuration = 2
  /\ violations = <<Violation(0, "RangeError")>>

\* C6: validateRecord does not fail fast: the returned list has an (index,
\* kind) entry for every pair that breaks a per-pair rule and for every pair
\* that breaks the consecutive-pair rule, has no other entry, and is empty
\* exactly when no pair breaks a rule.
C6_AllReported ==
  vpc = "checked" =>
    LET n == Len(pairs)
        rangeBroken(i) ==
          IF pairs[i][2] = -1
          THEN ~(i = n /\ sessionOngoing)
          ELSE \/ pairs[i][2] <= pairs[i][1]
               \/ pairs[i][2] > sessionDuration
               \/ pairs[i][1] < 0
        orderBroken(i) == i > 1 /\ pairs[i][1] <= pairs[i - 1][2]
    IN  /\ Range(violations) =
             {Violation(i - 1, "RangeError") : i \in {j \in 1 .. n : rangeBroken(j)}}
             \cup
             {Violation(i - 1, "OrderingError") : i \in {j \in 1 .. n : orderBroken(j)}}
        /\ violations = <<>> <=>
             \A i \in 1 .. n : ~rangeBroken(i) /\ ~orderBroken(i)

\* A record whose two pairs both break a rule has an entry for each.
C6_Witness ==
  /\ vpc = "checked"
  /\ pairs = <<<<2, 1>>, <<0, 3>>>>
  /\ sessionDuration = 2
  /\ violations = <<Violation(0, "RangeError"), Violation(1, "RangeError"),
                    Violation(1, "OrderingError")>>

-----------------------------------------------------------------------------
(* Identifiers.  An id is the sequence of its characters. *)

WellKnownPrefix ==
  <<"w", "e", "l", "l", "-", "k", "n", "o", "w", "n", ":">>

\* "well-known:edu.washington.hcde.engineering-design@1"
EngineeringDesignId ==
  <<"w", "e", "l", "l", "-", "k", "n", "o", "w", "n", ":", "e", "d", "u",
    ".", "w", "a", "s", "h", "i", "n", "g", "t", "o", "n", ".", "h", "c",
    "d", "e", ".", "e", "n", "g", "i", "n", "e", "e", "r", "i", "n", "g",
    "-", "d", "e", "s", "i", "g", "n", "@", "1">>

\* "kobyeor9a9y5cca9iufm8jjv"
GeneratedId ==
  <<"k", "o", "b", "y", "e", "o", "r", "9", "a", "9", "y", "5", "c", "c",
    "a", "9", "i", "u", "f", "m", "8", "j", "j", "v">>

\* "well-known:a.b", "well-known:" alone, "well-known" without the colon,
\* "Well-known:a.b", "xwell-known:a.b", "well-known:a..b", "well-known:a.b@"
\* and "well-known:A B".
ShortWellKnownId == WellKnownPrefix \o <<"a", ".", "b">>
PrefixOnlyId == WellKnownPrefix
NoColonId == SubSeq(WellKnownPrefix, 1, Len(WellKnownPrefix) - 1)
CapitalId == <<"W">> \o Tail(ShortWellKnownId)
InfixId == <<"x">> \o ShortWellKnownId
EmptySegmentId == WellKnownPrefix \o <<"a", ".", ".", "b">>
EmptyVersionId == ShortWellKnownId \o <<"@">>
UpperCaseId == WellKnownPrefix \o <<"A", " ", "B">>

LowerCase ==
  {"a", "b", "c", "d", "e", "f", "g", "h", "i", "j", "k", "l", "m",
   "n", "o", "p", "q", "r", "s", "t", "u", "v", "w", "x", "y", "z"}

Digits == {"0", "1", "2", "3", "4", "5", "6", "7", "8", "9"}

\* A mutation of startsWith: the prefix may occur anywhere in the string.
includesString(s, prefix) ==
  \E i \in 1 .. Len(s) - Len(prefix) + 1 :
    SubSeq(s, i, i + Len(prefix) - 1) = prefix

\* String.prototype.startsWith
startsWith(s, prefix) ==
  Len(s) >= Len(prefix) /\ SubSeq(s, 1, Len(prefix)) = prefix

indexOf(s, c) ==
  IF \E i \in DOMAIN s : s[i] = c
  THEN CHOOSE i \in DOMAIN s : s[i] = c /\ \A j \in 1 .. i - 1 : s[j] # c
  ELSE 0

\* Dot-separated, non-empty segments of lower-case letters, digits and "-".
reverseDNS(s) ==
  /\ s # <<>>
  /\ \A i \in DOMAIN s : s[i] \in LowerCase \cup Digits \cup {"-", "."}
  /\ s[1] # "." /\ s[Len(s)] # "."
  /\ \A i \in 1 .. Len(s) - 1 : ~(s[i] = "." /\ s[i + 1] = ".")

integerString(s) == s # <<>> /\ \A i \in DOMAIN s : s[i] \in Digits

\* The part after the prefix: a reverse-DNS token and, optionally, "@" and a
\* version.
wellKnownShape(rest) ==
  LET at == indexOf(rest, "@")
  IN  IF at = 0 THEN reverseDNS(rest)
      ELSE /\ reverseDNS(SubSeq(rest, 1, at - 1))
           /\ integerString(SubSeq(rest, at + 1, Len(rest)))

\* The kind follows the prefix alone; an id under the prefix is valid when
\* the rest has the well-known shape, a generated id is opaque.
classify(id) ==
  IF startsWith(id, WellKnownPrefix)
  THEN [kind  |-> "well-known",
        valid |-> wellKnownShape(SubSeq(id, Len(WellKnownPrefix) + 1, Len(id)))]
  ELSE [kind |-> "generated", valid |-> TRUE]

-----------------------------------------------------------------------------
(* JSON objects are functions from their keys; an absent optional property  *)
(* is a key outside the domain.                                             *)

has(o, k) == k \in DOMAIN o

put(o, k, v) == [x \in DOMAIN o \cup {k} |-> IF x = k THEN v ELSE o[x]]

defaulted(o, k, v) == IF has(o, k) THEN o ELSE put(o, k, v)

mapField(o, k, F(_)) == IF has(o, k) THEN put(o, k, F(o[k])) ELSE o

mapSeq(s, F(_)) == [i \in 1 .. Len(s) |-> F(s[i])]

\* JSON null.
Null == [null |-> TRUE]

\* An encoded date is the record of the fields of its ISO string
\* "YYYY-MM-DDTHH:mm:ss.sssZ"; a Date in memory is [day, ms].
isDate(v) == DOMAIN v = {"day", "ms"}

isISOString(v) ==
  /\ DOMAIN v = {"y", "m", "d", "h", "mi", "s", "ms"}
  /\ v.m \in 1 .. 12 /\ v.d \in 1 .. 31
  /\ v.h \in 0 .. 23 /\ v.mi \in 0 .. 59 /\ v.s \in 0 .. 59 /\ v.ms \in 0 .. 999

\* A mutation of toISOString: the milliseconds are not written.
toISOStringSeconds(date) ==
  LET c == CivilFromDays(date.day)
  IN  [y |-> c.y, m |-> c.m, d |-> c.d,
       h  |-> date.ms \div 3600000,
       mi |-> (date.ms \div 60000) % 60,
       s  |-> (date.ms \div 1000) % 60,
       ms |-> 0]

\* Date.prototype.toISOString
toISOString(date) ==
  LET c == CivilFromDays(date.day)
  IN  [y |-> c.y, m |-> c.m, d |-> c.d,
       h  |-> date.ms \div 3600000,
       mi |-> (date.ms \div 60000) % 60,
       s  |-> (date.ms \div 1000) % 60,
       ms |-> date.ms % 1000]

\* new Date(isoString)
parseISO(iso) == DateOf(iso.y, iso.m, iso.d, iso.h, iso.mi, iso.s, iso.ms)

\* Encoding leaves what is not a Date as it is; decoding leaves what does not
\* parse as it is (and the structural check reports it).
encodeDate(v) == IF isDate(v) THEN toISOString(v) ELSE v

decodeDate(v) == IF isISOString(v) THEN parseISO(v) ELSE v

-----------------------------------------------------------------------------
(* Entity Validator: default-filling and date conversion.  dir is "decode"  *)
(* (ISO strings become Dates) or "encode" (Dates become ISO strings); time   *)
(* is the reading of the time source, a Date.                               *)

convertDate(dir, v) == IF dir = "decode" THEN decodeDate(v) ELSE encodeDate(v)

fillNote(n, time, dir) ==
  mapField(defaulted(n, "created", time), "created",
           LAMBDA v : convertDate(dir, v))

fillNotes(o, time, dir) ==
  mapField(defaulted(o, "notes", <<>>), "notes",
           LAMBDA ns : mapSeq(ns, LAMBDA n : fillNote(n, time, dir)))

fillActivity(a) == defaulted(a, "description", "")

fillDescription(d) ==
  IF d = Null THEN d
  ELSE defaulted(defaulted(defaulted(d, "imageURL", ""), "citation", ""),
                 "moreInfoURL", "")

\* The "(empty)" default of the object-or-null description is null.
fillDesignModel(m) ==
  LET m1 == defaulted(defaulted(m, "description", Null), "wellKnown", FALSE)
      m2 == mapField(m1, "description", fillDescription)
  IN  mapField(m2, "activities", LAMBDA as : mapSeq(as, fillActivity))

\* A mutation of fillMetadata: active is left out when the project has none.
fillMetadataWithoutActive(p, time, dir) ==
  LET p1 == defaulted(defaulted(defaulted(p,
              "description", ""), "created", time), "modified", time)
      p2 == mapField(mapField(p1, "created", LAMBDA v : convertDate(dir, v)),
                     "modified", LAMBDA v : convertDate(dir, v))
  IN  fillNotes(mapField(p2, "designModel", fillDesignModel), time, dir)

fillMetadata(p, time, dir) ==
  LET p1 == defaulted(defaulted(defaulted(defaulted(p,
              "description", ""), "created", time), "modified", time),
              "active", TRUE)
      p2 == mapField(mapField(p1, "created", LAMBDA v : convertDate(dir, v)),
                     "modified", LAMBDA v : convertDate(dir, v))
  IN  fillNotes(mapField(p2, "designModel", fillDesignModel), time, dir)

fillSession(s, time, dir) ==
  fillNotes(mapField(s, "start", LAMBDA v : convertDate(dir, v)), time, dir)

fillRealtimeProject(p, time, dir) ==
  mapField(fillMetadata(p, time, dir), "sessions",
           LAMBDA ss : mapSeq(ss, LAMBDA s : fillSession(s, time, dir)))

fillActivityData(d) == defaulted(d, "note", "")

fillEntry(e, time, dir) ==
  LET e1 == defaulted(defaulted(defaulted(e, "note", ""), "created", time),
                      "modified", time)
      e2 == mapField(mapField(mapField(e1,
              "period", LAMBDA v : convertDate(dir, v)),
              "created", LAMBDA v : convertDate(dir, v)),
              "modified", LAMBDA v : convertDate(dir, v))
  IN  mapField(e2, "data", LAMBDA ds : mapSeq(ds, fillActivityData))

fillAsyncProject(p, time, dir) ==
  mapField(defaulted(fillMetadata(p, time, dir), "periodAlignment", 0),
           "entries",
           LAMBDA es : mapSeq(es, LAMBDA e : fillEntry(e, time, dir)))

fillEntity(type, data, time, dir) ==
  CASE type = "AsyncEntry"      -> fillEntry(data, time, dir)
    [] type = "AsyncProject"    -> fillAsyncProject(data, time, dir)
    [] type = "DesignModel"     -> fillDesignModel(data)
    [] type = "ProjectNote"     -> fillNote(data, time, dir)
    [] type = "RealtimeProject" -> fillRealtimeProject(data, time, dir)
    [] type = "RealtimeSession" -> fillSession(data, time, dir)
    [] type = "TimedNote"       -> fillNote(data, time, dir)
    [] OTHER                    -> data

-----------------------------------------------------------------------------
(* Entity Validator: structural checks on the encoded data.  A path is the  *)
(* sequence of keys and indices from the envelope, sessions[2].data[0][1]   *)
(* of the data being <<"data", "sessions", "2", "data", "0", "1">>.         *)

Error(path, kind) == [path |-> path, kind |-> kind]

missing(o, keys, path) ==
  {Error(path \o <<k>>, "StructuralError") : k \in keys \ DOMAIN o}

badDates(o, keys, path) ==
  {Error(path \o <<k>>, "StructuralError") :
     k \in {x \in keys \cap DOMAIN o : ~isISOString(o[x])}}

at(path, key, i) == path \o <<key, ToString(i - 1)>>

structuralNote(n, path, required) ==
  missing(n, required, path) \cup badDates(n, {"created"}, path)

structuralNotes(o, path) ==
  IF has(o, "notes")
  THEN UNION {structuralNote(o.notes[i], at(path, "notes", i), {"id", "content"}) :
                i \in DOMAIN o.notes}
  ELSE {}

structuralDesignModel(m, path) ==
  missing(m, {"id", "name", "activities"}, path)
  \cup (IF has(m, "activities")
        THEN UNION {missing(m.activities[i], {"name", "code", "color"},
                            at(path, "activities", i)) :
                      i \in DOMAIN m.activities}
        ELSE {})
  \cup (IF has(m, "description") /\ m.description # Null
        THEN missing(m.description, {"description"}, path \o <<"description">>)
        ELSE {})

structuralMetadata(p, path) ==
  missing(p, {"id", "name", "designModel"}, path)
  \cup badDates(p, {"created", "modified"}, path)
  \cup (IF has(p, "designModel")
        THEN structuralDesignModel(p.designModel, path \o <<"designModel">>)
        ELSE {})
  \cup structuralNotes(p, path)

structuralSession(s, path) ==
  missing(s, {"id", "duration", "start", "data"}, path)
  \cup badDates(s, {"start"}, path)
  \cup structuralNotes(s, path)

structuralRealtimeProject(p, path) ==
  structuralMetadata(p, path)
  \cup missing(p, {"sessions"}, path)
  \cup (IF has(p, "sessions")
        THEN UNION {structuralSession(p.sessions[i], at(path, "sessions", i)) :
                      i \in DOMAIN p.sessions}
        ELSE {})

structuralEntry(e, path) ==
  missing(e, {"id", "data", "period"}, path)
  \cup badDates(e, {"period", "created", "modified"}, path)
  \cup (IF has(e, "data")
        THEN UNION {missing(e.data[i], {"value"}, at(path, "data", i)) :
                      i \in DOMAIN e.data}
        ELSE {})

structuralAsyncProject(p, path) ==
  structuralMetadata(p, path)
  \cup missing(p, {"reportingPeriod", "entries"}, path)
  \cup (IF has(p, "reportingPeriod") /\ p.reportingPeriod \notin ReportingPeriods
        THEN {Error(path \o <<"reportingPeriod">>, "StructuralError")} ELSE {})
  \cup (IF has(p, "entries")
        THEN UNION {structuralEntry(p.entries[i], at(path, "entries", i)) :
                      i \in DOMAIN p.entries}
        ELSE {})

structural(type, data, path) ==
  CASE type = "AsyncEntry"      -> structuralEntry(data, path)
    [] type = "AsyncProject"    -> structuralAsyncProject(data, path)
    [] type = "DesignModel"     -> structuralDesignModel(data, path)
    [] type = "ProjectNote"     -> structuralNote(data, path, {"id", "content"})
    [] type = "RealtimeProject" -> structuralRealtimeProject(data, path)
    [] type = "RealtimeSession" -> structuralSession(data, path)
    [] type = "TimedNote"       ->
         structuralNote(data, path, {"id", "content", "time"})
    [] OTHER                    -> {}

-----------------------------------------------------------------------------
(* Entity Validator: invariant checks on the default-filled entity.  A check *)
(* runs only when the fields it reads are there.                            *)

idErrors(o, path) ==
  IF has(o, "id") /\ ~classify(o.id).valid
  THEN {Error(path \o <<"id">>, "FormatError")} ELSE {}

notesErrors(o, path) ==
  IF has(o, "notes")
  THEN UNION {idErrors(o.notes[i], at(path, "notes", i)) : i \in DOMAIN o.notes}
  ELSE {}

\* FormatError when wellKnown disagrees with the classification of the id.
validateDesignModel(model, path) ==
  IF /\ has(model, "id")
     /\ model.wellKnown # (classify(model.id).kind = "well-known")
  THEN {Error(path \o <<"wellKnown">>, "FormatError")} ELSE {}

designModelErrors(model, path) ==
  validateDesignModel(model, path) \cup idErrors(model, path)

\* A mutation of dataMatchesActivities: shorter data passes.
dataFitsActivities(data, activities) == Len(data) <= Len(activities)

\* "each element corresponds to ... the Activity with the same index in the
\* project's DesignModel"
dataMatchesActivities(data, activities) == Len(data) = Len(activities)

\* owner is the owning project (default-filled), or Null for an entity that
\* is the document's root.
referentialErrors(o, owner, path) ==
  IF /\ has(o, "data")
     /\ owner # Null
     /\ has(owner, "designModel")
     /\ has(owner.designModel, "activities")
     /\ ~dataMatchesActivities(o.data, owner.designModel.activities)
  THEN {Error(path \o <<"data">>, "ReferentialError")} ELSE {}

\* A session in a document is never ongoing.
recordErrors(s, path) ==
  IF has(s, "data") /\ has(s, "duration")
  THEN UNION {
         {Error(at(path, "data", i) \o <<ToString(v.index)>>, v.kind) :
            v \in Range(validateRecord(s.data[i], s.duration, FALSE))} :
         i \in DOMAIN s.data}
  ELSE {}

sessionErrors(s, owner, path) ==
  idErrors(s, path)
  \cup referentialErrors(s, owner, path)
  \cup recordErrors(s, path)
  \cup notesErrors(s, path)

\* Outside a project the reporting period is not known: the period must
\* then be the start of a UTC day.
periodErrors(e, owner, path) ==
  IF has(e, "period") /\ isDate(e.period)
  THEN LET rp == IF owner # Null /\ has(owner, "reportingPeriod")
                    /\ owner.reportingPeriod \in ReportingPeriods
                 THEN owner.reportingPeriod ELSE "day"
           align == IF owner # Null /\ owner.periodAlignment \in Weekday
                    THEN owner.periodAlignment ELSE 0
       IN  IF normalize(e.period, rp, align) # e.period
           THEN {Error(path \o <<"period">>, "RangeError")} ELSE {}
  ELSE {}

valueErrors(e, path) ==
  IF has(e, "data")
  THEN {Error(at(path, "data", i) \o <<"value">>, "RangeError") :
          i \in {j \in DOMAIN e.data : has(e.data[j], "value") /\ e.data[j].value < 0}}
  ELSE {}

entryErrors(e, owner, path) ==
  idErrors(e, path)
  \cup referentialErrors(e, owner, path)
  \cup periodErrors(e, owner, path)
  \cup valueErrors(e, path)

metadataErrors(p, path) ==
  idErrors(p, path)
  \cup (IF has(p, "designModel")
        THEN designModelErrors(p.designModel, path \o <<"designModel">>)
        ELSE {})
  \cup notesErrors(p, path)

realtimeProjectErrors(p, path) ==
  metadataErrors(p, path)
  \cup (IF has(p, "sessions")
        THEN UNION {sessionErrors(p.sessions[i], p, at(path, "sessions", i)) :
                      i \in DOMAIN p.sessions}
        ELSE {})

asyncProjectErrors(p, path) ==
  metadataErrors(p, path)
  \cup (IF p.periodAlignment \notin Weekday
        THEN {Error(path \o <<"periodAlignment">>, "RangeError")} ELSE {})
  \cup (IF has(p, "entries")
        THEN UNION {entryErrors(p.entries[i], p, at(path, "entries", i)) :
                      i \in DOMAIN p.entries}
        ELSE {})

invariantErrors(type, e, path) ==
  CASE type = "AsyncEntry"      -> entryErrors(e, Null, path)
    [] type = "AsyncProject"    -> asyncProjectErrors(e, path)
    [] type = "DesignModel"     -> designModelErrors(e, path)
    [] type = "ProjectNote"     -> idErrors(e, path)
    [] type = "RealtimeProject" -> realtimeProjectErrors(e, path)
    [] type = "RealtimeSession" -> sessionErrors(e, Null, path)
    [] type = "TimedNote"       -> idErrors(e, path)
    [] OTHER                    -> {}

\* The Entity Validator: required fields, defaults, invariants.
validateEntity(type, data, time) ==
  structural(type, data, <<"data">>)
  \cup invariantErrors(type, fillEntity(type, data, time, "decode"), <<"data">>)

-----------------------------------------------------------------------------
(* Envelope Codec and Document Pipeline *)

Format == "design-awareness"

Version == "1.0.0"

EntityTypes ==
  {"AsyncEntry", "AsyncProject", "DesignModel", "ProjectNote",
   "RealtimeProject", "RealtimeSession", "TimedNote"}

\* A mutation of isEntityType: the type is not looked at.
anyType(type) == TRUE

isEntityType(type) == type \in EntityTypes

\* A mutation of metaErrors: an envelope that carries a meta is rejected.
metaRejected(env) ==
  IF has(env, "meta") THEN {Error(<<"meta">>, "StructuralError")} ELSE {}

\* The meta property is ignored: whatever it holds, it yields no error.
metaErrors(env) == {}

envelopeErrors(env) ==
  (IF has(env, "$format") /\ env["$format"] = Format
   THEN {} ELSE {Error(<<"$format">>, "FormatError")})
  \cup (IF has(env, "version") /\ env["version"] = Version
        THEN {} ELSE {Error(<<"version">>, "FormatError")})
  \cup (IF ~has(env, "type") THEN {Error(<<"type">>, "StructuralError")}
        ELSE IF ~isEntityType(env["type"])
             THEN {Error(<<"type">>, "UnknownTypeError")} ELSE {})
  \cup (IF has(env, "data") THEN {} ELSE {Error(<<"data">>, "StructuralError")})
  \cup metaErrors(env)

\* The entity is validated when the envelope names its type and carries data.
dispatches(env) ==
  has(env, "type") /\ isEntityType(env["type"]) /\ has(env, "data")

\* decode: a valid entity or the list of every violation found; meta is not
\* read.
decode(env, time) ==
  LET errors == envelopeErrors(env)
                \cup (IF dispatches(env)
                      THEN validateEntity(env["type"], env["data"], time)
                      ELSE {})
  IN  IF errors = {}
      THEN [ok |-> TRUE, type |-> env["type"],
            entity |-> fillEntity(env["type"], env["data"], time, "decode"),
            errors |-> {}]
      ELSE [ok |-> FALSE, type |-> "", entity |-> Null, errors |-> errors]

NoMeta == [none |-> TRUE]

\* encode: the canonical envelope with every field of the entity; meta is
\* included when the caller supplies it.
encode(type, e, m, time) ==
  LET env == ("$format" :> Format) @@ ("version" :> Version)
             @@ ("type" :> type)
             @@ ("data" :> fillEntity(type, e, time, "encode"))
  IN  IF m = NoMeta THEN env ELSE env @@ ("meta" :> m)

-----------------------------------------------------------------------------
(* Sample documents.  iso selects the encoded form (dates as ISO strings)   *)
(* or the in-memory form (Dates).                                           *)

rep(iso, date) == IF iso THEN toISOString(date) ELSE date

\* The time source starts at 2021-06-10T01:28:01.915Z.
ClockStart == DateOf(2021, 6, 10, 1, 28, 1, 915)

\* An ISO string that does not parse: month 13.
BadDate == [y |-> 2021, m |-> 13, d |-> 1, h |-> 0, mi |-> 0, s |-> 0, ms |-> 0]

SampleMeta == [owner |-> "Jill Smith", software |-> "XYZ Design Tool"]

BareNote == [id |-> GeneratedId, content |-> "note"]

DatedNote(iso) == BareNote @@ [created |-> rep(iso, June23)]

ProjectNotes(iso) ==
  {BareNote, DatedNote(iso),
   [id |-> GeneratedId],
   [id |-> PrefixOnlyId, content |-> "note"]}
  \cup (IF iso THEN {BareNote @@ [created |-> BadDate]} ELSE {})

TimedNotes(iso) ==
  {BareNote @@ [time |-> 1], DatedNote(iso) @@ [time |-> 1], BareNote}

BareActivity == [name |-> "Research", code |-> "RE", color |-> <<"0C8375", "14B8A5">>]

activityList(n) ==
  [i \in 1 .. n |->
     IF i % 2 = 0 THEN BareActivity @@ [description |-> "reading"]
     ELSE BareActivity]

ModelIds ==
  {EngineeringDesignId, GeneratedId, ShortWellKnownId, PrefixOnlyId, NoColonId,
   CapitalId, InfixId, EmptySegmentId, EmptyVersionId, UpperCaseId}

BareModel(id, n) == [id |-> id, name |-> "Engineering Design", activities |-> activityList(n)]

ModelDescriptions ==
  {Null, [description |-> "text"],
   [description |-> "text", imageURL |-> "https://example.org/a.png",
    citation |-> "cite", moreInfoURL |-> "https://example.org"]}

DesignModels ==
  {BareModel(id, MaxActivities) : id \in ModelIds}
  \cup {BareModel(id, MaxActivities) @@ [wellKnown |-> wk] :
          id \in ModelIds, wk \in BOOLEAN}
  \cup {BareModel(GeneratedId, n) @@ [description |-> d] :
          n \in 0 .. MaxActivities, d \in ModelDescriptions}
  \cup {[id |-> GeneratedId, name |-> "Engineering Design"],
        BareModel(GeneratedId, 1) @@ [description |-> [citation |-> "cite"]]}

\* The design models projects embed: generated ones of the two largest
\* sizes, the standard one, and the standard id with wellKnown left out.
ProjectModels ==
  {BareModel(GeneratedId, n) : n \in MaxActivities - 1 .. MaxActivities}
  \cup {BareModel(EngineeringDesignId, MaxActivities) @@ [wellKnown |-> TRUE],
        BareModel(EngineeringDesignId, 1)}

SeparatedPairs == <<<<0, 100>>, <<150, 200>>>>

OpenPair == <<<<0, -1>>>>

SampleRecords == {SeparatedPairs, TouchingPairs, OpenPair}

BareSession(iso, record, n) ==
  [id |-> GeneratedId, duration |-> 200, start |-> rep(iso, June20Afternoon),
   data |-> [i \in 1 .. n |-> record]]

\* Sessions whose data has 0 to MaxActivities + 1 records.
Sessions(iso) ==
  {BareSession(iso, r, n) : r \in SampleRecords, n \in 0 .. MaxActivities + 1}
  \cup {BareSession(iso, SeparatedPairs, n) @@ [notes |-> <<DatedNote(iso)>>] :
          n \in 0 .. MaxActivities + 1}

\* The sessions of sample projects: data of one record less than, as many as
\* and one more than the largest design model has activities.
ProjectSessions(iso) ==
  {BareSession(iso, r, n) :
     r \in {SeparatedPairs, TouchingPairs},
     n \in MaxActivities - 1 .. MaxActivities + 1}
  \cup {BareSession(iso, SeparatedPairs, MaxActivities)
          @@ [notes |-> <<DatedNote(iso)>>]}

StandaloneSessions(iso) ==
  Sessions(iso)
  \cup {[id |-> GeneratedId, duration |-> 200, start |-> rep(iso, June20)]}
  \cup (IF iso
        THEN {[id |-> GeneratedId, duration |-> 200, start |-> BadDate,
               data |-> <<TouchingPairs>>]}
        ELSE {})

RECURSIVE listsUpTo(_, _)
\* The sequences of at most n elements of S.
listsUpTo(S, n) ==
  IF n = 0 THEN {<<>>}
  ELSE LET shorter == listsUpTo(S, n - 1)
       IN  shorter \cup {Append(l, x) : l \in {k \in shorter : Len(k) = n - 1}, x \in S}

BareMetadata(model) ==
  [id |-> GeneratedId, name |-> "Bridge", designModel |-> model]

FullMetadata(iso, model) ==
  BareMetadata(model)
  @@ [description |-> "a bridge", created |-> rep(iso, June20Afternoon),
      modified |-> rep(iso, June23), active |-> FALSE,
      notes |-> <<BareNote>>]

RealtimeProjects(iso) ==
  {m @@ [sessions |-> ss] :
     m \in {BareMetadata(d) : d \in ProjectModels}
           \cup {FullMetadata(iso, BareModel(GeneratedId, MaxActivities))},
     ss \in listsUpTo(ProjectSessions(iso), MaxSessions)}
  \cup {BareMetadata(BareModel(GeneratedId, 1))}

BareEntry(iso, p, n) ==
  [id |-> GeneratedId, period |-> rep(iso, p),
   data |-> [i \in 1 .. n |->
               IF i % 2 = 0 THEN [value |-> 30, note |-> "late"]
               ELSE [value |-> 30]]]

\* Entries whose data has 0 to MaxActivities + 1 elements.
Entries(iso) ==
  {BareEntry(iso, p, n) : p \in {June21, June23}, n \in 0 .. MaxActivities + 1}
  \cup {BareEntry(iso, June21, n)
          @@ [note |-> "n", created |-> rep(iso, June23),
              modified |-> rep(iso, June23)] :
          n \in 0 .. MaxActivities + 1}

ProjectEntries(iso) ==
  {BareEntry(iso, p, n) :
     p \in {June21, June23}, n \in MaxActivities - 1 .. MaxActivities + 1}
  \cup {BareEntry(iso, June21, MaxActivities)
          @@ [note |-> "n", created |-> rep(iso, June23),
              modified |-> rep(iso, June23)]}

StandaloneEntries(iso) ==
  Entries(iso)
  \cup {[id |-> GeneratedId, period |-> rep(iso, June21),
         data |-> <<[value |-> 0 - 5]>>],
        [id |-> GeneratedId, period |-> rep(iso, June21)]}
  \cup (IF iso
        THEN {[id |-> GeneratedId, period |-> BadDate, data |-> <<>>]}
        ELSE {})

PeriodSettings ==
  {[reportingPeriod |-> "day"], [reportingPeriod |-> "week"],
   [reportingPeriod |-> "week", periodAlignment |-> 1]}

AsyncProjects(iso) ==
  {BareMetadata(d) @@ ps @@ [entries |-> es] :
     d \in ProjectModels, ps \in PeriodSettings,
     es \in listsUpTo(ProjectEntries(iso), MaxSessions)}
  \cup {BareMetadata(BareModel(GeneratedId, 1)) @@ [entries |-> <<>>],
        BareMetadata(BareModel(GeneratedId, 1))
          @@ [reportingPeriod |-> "week", periodAlignment |-> 7, entries |-> <<>>]}

Samples(type, iso) ==
  CASE type = "AsyncEntry"      -> StandaloneEntries(iso)
    [] type = "AsyncProject"    -> AsyncProjects(iso)
    [] type = "DesignModel"     -> DesignModels
    [] type = "ProjectNote"     -> ProjectNotes(iso)
    [] type = "RealtimeProject" -> RealtimeProjects(iso)
    [] type = "RealtimeSession" -> StandaloneSessions(iso)
    [] type = "TimedNote"       -> TimedNotes(iso)

Envelope(type, data) ==
  ("$format" :> Format) @@ ("version" :> Version) @@ ("type" :> type)
  @@ ("data" :> data)

without(env, k) == [x \in DOMAIN env \ {k} |-> env[x]]

\* Data that breaks entity-level rules under every type that has them.
BrokenSession == BareSession(TRUE, TouchingPairs, 1) @@ [id |-> PrefixOnlyId]

BrokenModel == BareModel(EngineeringDesignId, 1) @@ [wellKnown |-> FALSE]

\* Envelopes that are not of the format, made from one that is.
perturbed(good) ==
  {put(good, "type", "Foo"),
   put(put(good, "type", "Foo"), "$format", "other"),
   put(put(good, "type", "Foo"), "meta", SampleMeta),
   without(put(good, "type", "Foo"), "version"),
   put(good, "type", "asyncproject"),
   put(good, "$format", "other"),
   put(good, "version", "2.0.0"),
   without(good, "$format"),
   without(good, "type"),
   without(good, "data")}

\* Envelopes as a third party may send them.
RawEnvelopes ==
  UNION {{Envelope(t, d) : d \in Samples(t, TRUE)} : t \in EntityTypes}
  \cup UNION {{Envelope(t, d) @@ ("meta" :> SampleMeta) : d \in Samples(t, TRUE)} :
                t \in {"ProjectNote", "DesignModel"}}
  \cup UNION {perturbed(Envelope(t, d)) :
                t \in {"RealtimeSession", "DesignModel", "ProjectNote"},
                d \in {BrokenSession, BrokenModel, BareNote}}

\* A note that is only ever sent in an envelope with a meta.
MetaNote == [id |-> GeneratedId, content |-> "sent with meta"]

\* Metas that are objects: the documented example, another object, null.
ObjectMetas ==
  {[exportDate |-> toISOString(ClockStart), owner |-> "Jill Smith",
    software |-> "XYZ Design Tool"],
   [n |-> 7], Null}

\* Envelopes with a meta of any kind: an object, a number, a string.
sentWithMeta(env) ==
  \/ env \in {Envelope("ProjectNote", MetaNote) @@ ("meta" :> mv) :
                mv \in ObjectMetas}
  \/ env = Envelope("ProjectNote", MetaNote) @@ ("meta" :> 7)
  \/ env = Envelope("ProjectNote", MetaNote) @@ ("meta" :> "text")
  \/ env = Envelope("Foo", MetaNote) @@ ("meta" :> "text")

-----------------------------------------------------------------------------
(* Document Pipeline: a caller encodes an entity, or a third party sends an *)
(* envelope; the envelope is decoded; a decoded entity is exported again.   *)

DocInit ==
  /\ \/ /\ dpc = "entity"
        /\ etype \in EntityTypes
        /\ entity \in Samples(etype, FALSE)
        /\ wire = Null
     \/ /\ dpc = "wire"
        /\ etype = ""
        /\ entity = Null
        /\ \/ wire \in RawEnvelopes
           \/ sentWithMeta(wire)
  /\ meta = NoMeta
  /\ result = Null
  /\ now = ClockStart
  /\ encodedAt = ClockStart
  /\ ticks = 0

DocIdle ==
  /\ dpc = "idle"
  /\ etype = ""
  /\ entity = Null
  /\ wire = Null
  /\ meta = NoMeta
  /\ result = Null
  /\ now = ClockStart
  /\ encodedAt = ClockStart
  /\ ticks = 0

Encode ==
  /\ mode = "document"
  /\ dpc = "entity"
  /\ \E m \in {NoMeta, SampleMeta} :
       /\ meta' = m
       /\ wire' = encode(etype, entity, m, now)
  /\ encodedAt' = now
  /\ dpc' = "wire"
  /\ UNCHANGED <<mode, entity, etype, result, now, ticks>>
  /\ UNCHANGED <<nvars, tvars>>

\* The time source advances by a millisecond while the envelope travels.
Tick ==
  /\ mode = "document"
  /\ dpc = "wire"
  /\ ticks < MaxTicks
  /\ now' = [now EXCEPT !.ms = @ + 1]
  /\ ticks' = ticks + 1
  /\ UNCHANGED <<mode, entity, etype, meta, wire, result, encodedAt, dpc>>
  /\ UNCHANGED <<nvars, tvars>>

Decode ==
  /\ mode = "document"
  /\ dpc = "wire"
  /\ result' = decode(wire, now)
  /\ dpc' = "decoded"
  /\ UNCHANGED <<mode, entity, etype, meta, wire, now, encodedAt, ticks>>
  /\ UNCHANGED <<nvars, tvars>>

\* A decoded entity is encoded again; the caller may supply a meta.
Export ==
  /\ mode = "document"
  /\ dpc = "decoded"
  /\ result.ok
  /\ \E m \in {NoMeta, SampleMeta} :
       /\ meta' = m
       /\ wire' = encode(result.type, result.entity, m, now)
  /\ encodedAt' = now
  /\ dpc' = "exported"
  /\ UNCHANGED <<mode, entity, etype, result, now, ticks>>
  /\ UNCHANGED <<nvars, tvars>>

NextDocument == Encode \/ Tick \/ Decode \/ Export

-----------------------------------------------------------------------------
(* Entity Validator and Document Pipeline: claims *)

decoded == mode = "document" /\ dpc \in {"decoded", "exported"}

\* The envelope that was decoded reached the Entity Validator as type t.
validatedAs(t) ==
  /\ dpc = "decoded"
  /\ has(wire, "type") /\ wire["type"] = t
  /\ has(wire, "data")

\* C7: in every project document that passes validation, every
\* RealtimeSession and every AsyncEntry has as many data elements as the
\* project's designModel has activities; a session or entry whose data
\* length differs is reported with a ReferentialError at its data.
C7_Referential ==
  /\ (decoded /\ result.ok /\ result.type = "RealtimeProject") =>
       \A i \in DOMAIN result.entity.sessions :
         Len(result.entity.sessions[i].data)
           = Len(result.entity.designModel.activities)
  /\ (decoded /\ result.ok /\ result.type = "AsyncProject") =>
       \A i \in DOMAIN result.entity.entries :
         Len(result.entity.entries[i].data)
           = Len(result.entity.designModel.activities)
  /\ \A t \in {"RealtimeProject", "AsyncProject"} :
       LET key == IF t = "RealtimeProject" THEN "sessions" ELSE "entries"
           d   == wire["data"]
       IN  (/\ validatedAs(t)
            /\ has(d, key)
            /\ has(d, "designModel")
            /\ has(d["designModel"], "activities")) =>
             \A i \in DOMAIN d[key] :
               (/\ has(d[key][i], "data")
                /\ Len(d[key][i]["data"]) # Len(d["designModel"]["activities"]))
               => Error(<<"data", key, ToString(i - 1), "data">>,
                        "ReferentialError") \in result.errors

\* A project whose first session matches its design model and whose second
\* has one record too many: the second is reported, the first is not.
C7_Witness ==
  /\ validatedAs("RealtimeProject")
  /\ has(wire["data"], "designModel") /\ has(wire["data"], "sessions")
  /\ has(wire["data"]["designModel"], "activities")
  /\ Len(wire["data"]["designModel"]["activities"]) = MaxActivities
  /\ Len(wire["data"]["sessions"]) = 2
  /\ Len(wire["data"]["sessions"][1]["data"]) = MaxActivities
  /\ Len(wire["data"]["sessions"][2]["data"]) = MaxActivities + 1
  /\ result.errors =
       {Error(<<"data", "sessions", "1", "data">>, "ReferentialError")}

\* An async project with two entries has passed validation.
C7_WitnessValid ==
  /\ decoded
  /\ result.ok
  /\ result.type = "AsyncProject"
  /\ Len(result.entity.entries) = 2
  /\ Len(result.entity.designModel.activities) = MaxActivities

\* The id begins with the characters of "well-known:".
prefixed(id) ==
  /\ Len(id) >= Len(WellKnownPrefix)
  /\ \A i \in 1 .. Len(WellKnownPrefix) : id[i] = WellKnownPrefix[i]

\* C8: validating a DesignModel yields the FormatError of wellKnown exactly
\* when the flag (false when absent) disagrees with whether the id is
\* classified as well-known, so in every validated DesignModel, alone or
\* embedded in a project, wellKnown is true iff the id starts with
\* "well-known:".  The standard id with wellKnown false is a FormatError.
C8_WellKnown ==
  /\ (validatedAs("DesignModel") /\ has(wire["data"], "id")) =>
       LET d    == wire["data"]
           flag == IF has(d, "wellKnown") THEN d["wellKnown"] ELSE FALSE
       IN  /\ Error(<<"data", "wellKnown">>, "FormatError") \in result.errors
                <=> flag # prefixed(d["id"])
           /\ validateDesignModel(fillDesignModel(d), <<"data">>) # {}
                <=> flag # (classify(d["id"]).kind = "well-known")
           /\ (d["id"] = EngineeringDesignId /\ flag = FALSE) =>
                Error(<<"data", "wellKnown">>, "FormatError") \in result.errors
  /\ (decoded /\ result.ok /\ result.type = "DesignModel") =>
       (result.entity.wellKnown = TRUE <=> prefixed(result.entity.id))
  /\ (decoded /\ result.ok
        /\ result.type \in {"RealtimeProject", "AsyncProject"}) =>
       (result.entity.designModel.wellKnown = TRUE
          <=> prefixed(result.entity.designModel.id))

\* The standard design model sent with wellKnown false has been rejected
\* with the one FormatError.
C8_Witness ==
  /\ validatedAs("DesignModel")
  /\ has(wire["data"], "id") /\ has(wire["data"], "wellKnown")
  /\ wire["data"]["id"] = EngineeringDesignId
  /\ wire["data"]["wellKnown"] = FALSE
  /\ result.errors = {Error(<<"data", "wellKnown">>, "FormatError")}

\* The standard design model with wellKnown true has been validated.
C8_WitnessValid ==
  /\ decoded
  /\ result.ok
  /\ result.type = "DesignModel"
  /\ result.entity.id = EngineeringDesignId
  /\ result.entity.wellKnown = TRUE

\* C9: decoding an envelope whose type is none of the seven entity names
\* yields UnknownTypeError, and the Entity Validator is not run on its data:
\* every error of the list is about a key of the envelope itself.
C9_UnknownType ==
  (/\ mode = "document" /\ dpc = "decoded"
   /\ has(wire, "type")
   /\ wire["type"] \notin {"AsyncEntry", "AsyncProject", "DesignModel",
                           "ProjectNote", "RealtimeProject",
                           "RealtimeSession", "TimedNote"}) =>
    /\ ~result.ok
    /\ Error(<<"type">>, "UnknownTypeError") \in result.errors
    /\ \A e \in result.errors :
         e.path \in {<<"$format">>, <<"version">>, <<"type">>, <<"data">>}
    /\ ~dispatches(wire)

\* An envelope of type "Foo" that carries a session breaking three entity
\* rules has been decoded: the list holds the UnknownTypeError alone.
C9_Witness ==
  /\ dpc = "decoded"
  /\ has(wire, "type") /\ has(wire, "data")
  /\ wire["type"] = "Foo"
  /\ wire["data"] = BrokenSession
  /\ validateEntity("RealtimeSession", wire["data"], now) # {}
  /\ result.errors = {Error(<<"type">>, "UnknownTypeError")}

\* The entity passes the Entity Validator's checks: its required fields are
\* there and, with defaults filled, its invariants hold.
validEntity(type, e) ==
  /\ structural(type, fillEntity(type, e, ClockStart, "encode"), <<"data">>) = {}
  /\ invariantErrors(type, fillEntity(type, e, ClockStart, "decode"), <<"data">>) = {}

\* C10: round trip: for a valid entity e of any of the seven types,
\* decode(encode(type, e)) succeeds and returns the entity equal to e with
\* its defaults filled (those encode filled, at the reading of the time
\* source it took).
C10_RoundTrip ==
  (/\ mode = "document" /\ dpc = "decoded"
   /\ entity # Null
   /\ validEntity(etype, entity)) =>
    /\ result.ok
    /\ result.type = etype
    /\ result.entity = fillEntity(etype, entity, encodedAt, "decode")

\* A realtime project with dated notes and two sessions has made the round
\* trip while the time source advanced.
C10_Witness ==
  /\ dpc = "decoded"
  /\ etype = "RealtimeProject"
  /\ entity # Null
  /\ validEntity(etype, entity)
  /\ Len(entity.sessions) = 2
  /\ has(entity.sessions[1], "notes")
  /\ ~has(entity, "created")
  /\ ticks = 1
  /\ result.ok
  /\ result.entity.created = encodedAt
  /\ result.entity.sessions[1].notes[1].created = June23

\* An async entry whose created and modified are absent of the caller's
\* entity has made the round trip.
C10_WitnessEntry ==
  /\ dpc = "decoded"
  /\ etype = "AsyncEntry"
  /\ validEntity(etype, entity)
  /\ ~has(entity, "created")
  /\ result.ok
  /\ result.entity.period = June21

\* The field k, absent from the document raw, holds v in out.
held(raw, out, k, v) == ~has(raw, k) => (has(out, k) /\ out[k] = v)

noteDefaulted(raw, out, time) == held(raw, out, "created", time)

notesDefaulted(raw, out, time) ==
  /\ held(raw, out, "notes", <<>>)
  /\ has(raw, "notes") =>
       \A i \in DOMAIN raw["notes"] :
         noteDefaulted(raw["notes"][i], out["notes"][i], time)

modelDefaulted(raw, out) ==
  /\ held(raw, out, "wellKnown", FALSE)
  /\ has(out, "description")
  /\ \A i \in DOMAIN raw["activities"] :
       held(raw["activities"][i], out["activities"][i], "description", "")
  /\ (has(raw, "description") /\ raw["description"] # Null) =>
       \A k \in {"imageURL", "citation", "moreInfoURL"} :
         held(raw["description"], out["description"], k, "")

metadataDefaulted(raw, out, time) ==
  /\ held(raw, out, "description", "")
  /\ held(raw, out, "created", time)
  /\ held(raw, out, "modified", time)
  /\ held(raw, out, "active", TRUE)
  /\ modelDefaulted(raw["designModel"], out["designModel"])
  /\ notesDefaulted(raw, out, time)

entryDefaulted(raw, out, time) ==
  /\ held(raw, out, "note", "")
  /\ held(raw, out, "created", time)
  /\ held(raw, out, "modified", time)
  /\ \A i \in DOMAIN raw["data"] :
       held(raw["data"][i], out["data"][i], "note", "")

\* Every optional field absent from raw holds its documented default in out.
entityDefaulted(type, raw, out, time) ==
  CASE type = "AsyncEntry"      -> entryDefaulted(raw, out, time)
    [] type = "AsyncProject"    ->
         /\ metadataDefaulted(raw, out, time)
         /\ held(raw, out, "periodAlignment", 0)
         /\ \A i \in DOMAIN raw["entries"] :
              entryDefaulted(raw["entries"][i], out["entries"][i], time)
    [] type = "DesignModel"     -> modelDefaulted(raw, out)
    [] type = "ProjectNote"     -> noteDefaulted(raw, out, time)
    [] type = "RealtimeProject" ->
         /\ metadataDefaulted(raw, out, time)
         /\ \A i \in DOMAIN raw["sessions"] :
              notesDefaulted(raw["sessions"][i], out["sessions"][i], time)
    [] type = "RealtimeSession" -> notesDefaulted(raw, out, time)
    [] type = "TimedNote"       -> noteDefaulted(raw, out, time)

NoteFields == {"id", "content", "created"}

ModelFields == {"id", "name", "description", "activities", "wellKnown"}

MetadataFields ==
  {"id", "name", "description", "created", "modified", "active",
   "designModel", "notes"}

SessionFields == {"id", "duration", "start", "data", "notes"}

EntryFields == {"id", "data", "period", "note", "created", "modified"}

notesComplete(o) ==
  /\ has(o, "notes")
  /\ \A i \in DOMAIN o["notes"] : NoteFields \subseteq DOMAIN o["notes"][i]

modelComplete(m) ==
  /\ ModelFields \subseteq DOMAIN m
  /\ \A i \in DOMAIN m["activities"] :
       {"name", "description", "code", "color"}
         \subseteq DOMAIN m["activities"][i]
  /\ m["description"] # Null =>
       {"description", "imageURL", "citation", "moreInfoURL"}
         \subseteq DOMAIN m["description"]

metadataComplete(p) ==
  /\ MetadataFields \subseteq DOMAIN p
  /\ modelComplete(p["designModel"])
  /\ notesComplete(p)

sessionComplete(s) == SessionFields \subseteq DOMAIN s /\ notesComplete(s)

entryComplete(e) ==
  /\ EntryFields \subseteq DOMAIN e
  /\ \A i \in DOMAIN e["data"] : {"value", "note"} \subseteq DOMAIN e["data"][i]

\* The emitted data d has every field of its type, optional ones included.
entityComplete(type, d) ==
  CASE type = "AsyncEntry"      -> entryComplete(d)
    [] type = "AsyncProject"    ->
         /\ metadataComplete(d)
         /\ {"reportingPeriod", "periodAlignment", "entries"} \subseteq DOMAIN d
         /\ \A i \in DOMAIN d["entries"] : entryComplete(d["entries"][i])
    [] type = "DesignModel"     -> modelComplete(d)
    [] type = "ProjectNote"     -> NoteFields \subseteq DOMAIN d
    [] type = "RealtimeProject" ->
         /\ metadataComplete(d)
         /\ has(d, "sessions")
         /\ \A i \in DOMAIN d["sessions"] : sessionComplete(d["sessions"][i])
    [] type = "RealtimeSession" -> sessionComplete(d)
    [] type = "TimedNote"       -> NoteFields \cup {"time"} \subseteq DOMAIN d

C11_WitnessExported ==
  /\ mode = "document" /\ dpc = "exported"
  /\ wire["type"] = "RealtimeProject"
  /\ ticks = 1
  /\ wire["data"]["created"] = toISOString(now)
  /\ wire["data"]["active"] = TRUE
  /\ wire["data"]["notes"] = <<>>

\* The envelope on the wire was made by encode: by the caller's Encode or by
\* the Export of a decoded entity.
encoded ==
  /\ mode = "document"
  /\ \/ dpc = "exported"
     \/ dpc \in {"wire", "decoded"} /\ entity # Null

C12_WitnessDecoded ==
  /\ mode = "document" /\ dpc = "decoded"
  /\ has(wire, "meta")
  /\ has(wire, "data") /\ wire["data"] = MetaNote
  /\ result.ok
  /\ result.entity.created = now

\* The note that arrived with a meta has been exported with the caller's own.
C12_WitnessSupplied ==
  /\ mode = "document" /\ dpc = "exported"
  /\ wire["type"] = "ProjectNote"
  /\ wire["data"]["content"] = MetaNote.content
  /\ meta = SampleMeta
  /\ wire["meta"] = SampleMeta

\* C13: the week loop terminates for every period and every
\* periodAlignment of the Weekday range 0..6: a normalization that has
\* started reaches its end, and no run takes more than 6 one-day decrements.
C13_Terminates ==
  /\ [](periodAlignment \in 0 .. 6 => decrements <= 6)
  /\ (mode = "period" /\ npc = "start") ~> (npc = "done")
  /\ (mode = "period" /\ npc = "loop") ~> (npc = "done")

\* A Monday folded back to the Tuesday before it: the loop has ended after
\* six decrements.
C13_Witness ==
  /\ npc = "done"
  /\ reportingPeriod = "week"
  /\ period = June21
  /\ periodAlignment = 2
  /\ decrements = 6
  /\ cur.day = June21.day - 6

-----------------------------------------------------------------------------
(* Specifications *)

InitPeriod == mode = "period" /\ PeriodInit /\ TimingIdle /\ DocIdle

SpecPeriod == InitPeriod /\ [][NextPeriod]_vars

\* The normalizer is straight-line code: a step that can be taken is taken.
SpecPeriodFair ==
  /\ InitPeriod
  /\ [][NextPeriod]_vars
  /\ WF_vars(Truncate)
  /\ WF_vars(Decrement)
  /\ WF_vars(Aligned)

InitTiming == mode = "timing" /\ TimingInit /\ PeriodIdle /\ DocIdle

SpecTiming == InitTiming /\ [][NextTiming]_vars

InitDocument == mode = "document" /\ DocInit /\ PeriodIdle /\ TimingIdle

SpecDocument == InitDocument /\ [][NextDocument]_vars

Init == InitPeriod \/ InitTiming \/ InitDocument

Next == NextPeriod \/ NextTiming \/ NextDocument

Spec == Init /\ [][Next]_vars

====
